---- MODULE Spec2Model ----
(***************************************************************************)
(* Model of the allocation engine of RustFinalProject (src/main.rs):       *)
(* Placement (grid `map`, id_map, name_map, position_map, filter_list),    *)
(* the RoundRobin strategy and the two filters.                            *)
(*                                                                         *)
(* A grid coordinate is the triple <<row, shelf, zone>>.  The Rust HashMap *)
(* is keyed by Position, whose Eq/Hash ignore `occupied`; the flag that    *)
(* travels inside the key is modelled as the field `occupied` of the entry *)
(* stored under the triple.  Option<T> is modelled as a set with at most   *)
(* one element: None is {} and Some(x) is {x}.                             *)
(***************************************************************************)
EXTENDS Integers, Sequences, FiniteSets, TLC

\* Side of the cube.  The program sets MAXPOSITION = 10 (main.rs:8); the model
\* works on a scaled-down cube, so this is a bound of the model.
MAXPOSITION == 2

\* Number of operations (add_item, remove_item, configure_filters) per run.
MaxOps == 3

\* Number of operations per run of the narrower SpecFill.
MaxFillOps == 7

\* Largest id of SpecFill.
MaxFillId == 5

\* Number of operations per run of SpecSort.
MaxSortOps == 3

\* Number of operations per run of SpecFilter.
MaxFilterOps == 3

\* Number of operations per run of SpecExpiry.
MaxExpiryOps == 5

\* Number of operations per run of SpecWide.
MaxWideOps == 3

\* Number of operations per run of SpecName.
MaxNameOps == 4

\* Width of the unsigned integers.  The program's are u32; TLC's own integers
\* are 32-bit signed, so the model wraps at a narrower width.
WordBits == 16

U32 == 2 ^ WordBits

Add32(a, b) == (a + b) % U32

None == {}
Some(x) == {x}
Unwrap(o) == CHOOSE x \in o : TRUE

--------------------------------------------------------------------------
\* Inputs

Ids == {1, 2}
Names == {"a", "B"}
Dates == {<<1, 1, 1999>>}
FragileRows == {0, 1}
Spans == 0 .. (MAXPOSITION + 1)

Normal == [kind |-> "Normal"]
Fragile(d, r) == [kind |-> "Fragile", expiration_date |-> d, row |-> r]
Oversized(n) == [kind |-> "Oversized", continuous_zones |-> n]

Qualities ==
    {Normal}
    \cup {Fragile(d, r) : d \in Dates, r \in FragileRows}
    \cup {Oversized(n) : n \in Spans}

Item(i, n, q, k) == [id |-> i, name |-> n, quantity |-> q, quality |-> k]

Items == {Item(i, n, 1, k) : i \in Ids, n \in Names, k \in Qualities}

\* The inputs of SpecFill: ids 1 .. MaxFillId, one name per id, Normal items
\* and Oversized items that span a whole (row, shelf) lane.
FillIds == 1 .. MaxFillId
FillName(i) == <<"a", "B", "c", "D", "e", "F", "g", "H">>[i]
FillQualities == {Normal, Oversized(MAXPOSITION)}

\* The inputs of SpecSort: names whose byte order and case-insensitive order
\* differ, two of them equal up to case.
SortNames == {"a", "B", "b"}
SortItems == {Item(i, n, 1, k) : i \in Ids, n \in SortNames, k \in FillQualities}

AvoidTooLarge(c) == [kind |-> "AvoidTooLarge", cutoff |-> c]
AvoidTooFragile(c) == [kind |-> "AvoidTooFragile", cutoff |-> c]

FilterLists ==
    { <<AvoidTooLarge(1)>>,
      <<AvoidTooLarge(1), AvoidTooFragile(1)>> }

\* The inputs of SpecFilter: the two filters in both orders, with the
\* cutoffs of main (3 and 2) among them, and items on both sides of each cutoff.
SpanCutoffs == {1, 3}
FlexCutoffs == {1, 2}

FilterChains ==
    UNION { { <<AvoidTooLarge(c), AvoidTooFragile(d)>>,
              <<AvoidTooFragile(d), AvoidTooLarge(c)>> } :
            c \in SpanCutoffs, d \in FlexCutoffs }

FilterQualities ==
    {Normal}
    \cup {Fragile(d, r) : d \in Dates, r \in 0 .. MAXPOSITION}
    \cup {Oversized(n) : n \in 0 .. (MAXPOSITION + 2)}

FilterItems == {Item(1, "a", 1, k) : k \in FilterQualities}

\* The inputs of SpecExpiry: expiration dates [day, month, year] and reference
\* dates that differ from them in one component at a time.
ExpiryDates == {<<1, 1, 1999>>, <<2, 1, 1999>>, <<1, 2, 1998>>}

QueryDates ==
    {<<2, 2, 1999>>, <<1, 1, 1999>>, <<1, 1, 1998>>, <<1, 2, 1999>>, <<2, 1, 1998>>}

ExpiryQualities ==
    {Fragile(d, MAXPOSITION) : d \in ExpiryDates} \cup {Oversized(MAXPOSITION)}

\* The inputs of SpecWide: spans at the top of the u32 range next to small
\* ones, and filter chains that are empty or have a cutoff as large.
WideSpans == {1, U32 - MAXPOSITION, U32 - 1}

WideItems ==
    {Item(i, "a", 1, k) : i \in Ids, k \in {Normal} \cup {Oversized(n) : n \in WideSpans}}

WideFilterLists == {<< >>, <<AvoidTooLarge(U32 - 1)>>, <<AvoidTooLarge(1)>>}

--------------------------------------------------------------------------
\* State

VARIABLES
    map,            \* Placement.map: coordinate -> [occupied, item]
    id_map,         \* Placement.id_map: id -> Item
    name_map,       \* Placement.name_map: name -> Item
    position_map,   \* Placement.position_map: id -> sequence of coordinates
    filter_list,    \* Placement.filter_list
    last,           \* the last call and what it returned
    aborted,        \* the process has panicked
    ops             \* calls made so far

vars == <<map, id_map, name_map, position_map, filter_list, last, aborted, ops>>

Coords == (0 .. MAXPOSITION - 1) \X (0 .. MAXPOSITION - 1) \X (0 .. MAXPOSITION - 1)

Entry(occ, it) == [occupied |-> occ, item |-> it]

EmptyMap == << >>

\* HashMap::insert: an equal key already present keeps the stored key (and so
\* its occupied flag); only the value is replaced.
HashInsert(m, pos, occ, it) ==
    IF pos \in DOMAIN m
    THEN [m EXCEPT ![pos] = Entry(m[pos].occupied, it)]
    ELSE [k \in DOMAIN m \cup {pos} |-> IF k = pos THEN Entry(occ, it) ELSE m[k]]

\* HashMap::remove
HashRemove(m, pos) == [k \in DOMAIN m \ {pos} |-> m[k]]

\* Insert / remove on the three index maps (plain keys).
Put(m, k, v) == [x \in DOMAIN m \cup {k} |-> IF x = k THEN v ELSE m[x]]
Del(m, k) == [x \in DOMAIN m \ {k} |-> m[x]]

\* The state a call works on.
State(m, im, nm, pm) == [map |-> m, id_map |-> im, name_map |-> nm, position_map |-> pm]

Cur == State(map, id_map, name_map, position_map)

\* Placement::new
new == State([c \in Coords |-> Entry(FALSE, None)], EmptyMap, EmptyMap, EmptyMap)

--------------------------------------------------------------------------
\* Filters

\* <AvoidTooLarge as Filter>::check_allowed, <AvoidTooFragile as Filter>::check_allowed
check_allowed(filt, item) ==
    IF filt.kind = "AvoidTooLarge"
    THEN IF item.quality.kind = "Oversized"
         THEN item.quality.continuous_zones <= filt.cutoff
         ELSE TRUE
    ELSE IF item.quality.kind = "Fragile"
         THEN item.quality.row >= filt.cutoff
         ELSE TRUE

\* is_allowed_by_filters with any() in the place of all().
is_allowed_by_any_filter(filters, item) ==
    \E i \in 1 .. Len(filters) : check_allowed(filters[i], item)

\* Placement::is_allowed_by_filters
is_allowed_by_filters(filters, item) ==
    \A i \in 1 .. Len(filters) : check_allowed(filters[i], item)

--------------------------------------------------------------------------
\* Strategy

\* is_position_valid without the test of zone + span against MAXPOSITION.
is_position_valid_no_bound(pos, item, m) ==
    IF item.quality.kind = "Fragile" THEN pos[1] < item.quality.row
    ELSE IF item.quality.kind = "Oversized"
    THEN LET end == Add32(pos[3], item.quality.continuous_zones)
         IN  IF pos[3] < end
             THEN pos \in DOMAIN m /\ ~m[pos].occupied
             ELSE FALSE
    ELSE TRUE

\* is_position_valid with >= in the test of zone + span against MAXPOSITION.
is_position_valid_tight(pos, item, m) ==
    IF item.quality.kind = "Fragile" THEN pos[1] < item.quality.row
    ELSE IF item.quality.kind = "Oversized"
    THEN LET end == Add32(pos[3], item.quality.continuous_zones)
         IN  IF end >= MAXPOSITION THEN FALSE
             ELSE IF pos[3] < end
             THEN pos \in DOMAIN m /\ ~m[pos].occupied
             ELSE FALSE
    ELSE TRUE

\* RoundRobin::is_position_valid.  The Oversized loop returns `flag` at the end
\* of its first iteration, so only the cell k = pos.zone is ever inspected; a
\* `break` (occupied or missing key) and an empty range both fall through to
\* the trailing `false`.
is_position_valid(pos, item, m) ==
    IF item.quality.kind = "Fragile" THEN pos[1] < item.quality.row
    ELSE IF item.quality.kind = "Oversized"
    THEN LET end == Add32(pos[3], item.quality.continuous_zones)
         IN  IF end > MAXPOSITION THEN FALSE
             ELSE IF pos[3] < end
             THEN LET pos_test == <<pos[1], pos[2], pos[3]>>
                  IN  pos_test \in DOMAIN m /\ ~m[pos_test].occupied
             ELSE FALSE
    ELSE TRUE

\* pos.zone + continuous_zones leaves the u32 range: a panic when overflow
\* checks are compiled in, a wrapped sum otherwise.
Overflows(pos, item) ==
    /\ item.quality.kind = "Oversized"
    /\ pos[3] + item.quality.continuous_zones >= U32

\* iproduct!(0..MAXPOSITION, 0..MAXPOSITION, 0..MAXPOSITION): the i-th triple.
CoordAt(i) ==
    << i \div (MAXPOSITION * MAXPOSITION), (i \div MAXPOSITION) % MAXPOSITION, i % MAXPOSITION >>

NoPosition == [panic |-> FALSE, pos |-> None]
PanicPosition == [panic |-> TRUE, pos |-> None]

\* The scan of RoundRobin::allocate from the i-th triple on.
RECURSIVE allocate_from(_, _, _, _)
allocate_from(i, item, m, checked) ==
    IF i >= MAXPOSITION * MAXPOSITION * MAXPOSITION THEN NoPosition
    ELSE LET pos == CoordAt(i)
         IN  IF pos \notin DOMAIN m THEN allocate_from(i + 1, item, m, checked)
             ELSE IF m[pos].occupied THEN allocate_from(i + 1, item, m, checked)
             ELSE IF checked /\ Overflows(pos, item) THEN PanicPosition
             ELSE IF is_position_valid(pos, item, m)
                  THEN [panic |-> FALSE, pos |-> Some(pos)]
                  ELSE allocate_from(i + 1, item, m, checked)

\* <RoundRobin as Strategy>::allocate
allocate(item, m, checked) == allocate_from(0, item, m, checked)

--------------------------------------------------------------------------
\* Placement::add_item

\* The Oversized arm: for k in position.zone..(position.zone + continuous_zones).
RECURSIVE add_oversized(_, _, _, _, _)
add_oversized(st, item, position, k, end) ==
    IF k >= end THEN st
    ELSE LET temp == <<position[1], position[2], k>>
         IN  IF k = position[3]
             THEN add_oversized(
                      [st EXCEPT
                          !.map = HashInsert(HashRemove(st.map, temp), temp, TRUE, Some(item)),
                          !.position_map = Put(st.position_map, item.id, <<position>>)],
                      item, position, k + 1, end)
             ELSE add_oversized(
                      [st EXCEPT
                          !.map = HashInsert(HashRemove(st.map, temp), temp, TRUE, None),
                          !.position_map =
                              IF item.id \in DOMAIN st.position_map
                              THEN [st.position_map EXCEPT ![item.id] = Append(@, temp)]
                              ELSE st.position_map],
                      item, position, k + 1, end)

\* place that inserts a single-cell item without removing the old key first:
\* the stored key, with occupied = false, stays.
place_keep_key(st, item, position) ==
    LET st1 == [st EXCEPT !.id_map = Put(st.id_map, item.id, item),
                          !.name_map = Put(st.name_map, item.name, item)]
    IN  IF item.quality.kind = "Oversized"
        THEN add_oversized(st1, item, position, position[3],
                           Add32(position[3], item.quality.continuous_zones))
        ELSE [st1 EXCEPT
                 !.map = HashInsert(st1.map, position, TRUE, Some(item)),
                 !.position_map = Put(st1.position_map, item.id, <<position>>)]

\* place that removes the old key of a single-cell item and inserts nothing.
place_remove_only(st, item, position) ==
    LET st1 == [st EXCEPT !.id_map = Put(st.id_map, item.id, item),
                          !.name_map = Put(st.name_map, item.name, item)]
    IN  IF item.quality.kind = "Oversized"
        THEN add_oversized(st1, item, position, position[3],
                           Add32(position[3], item.quality.continuous_zones))
        ELSE [st1 EXCEPT
                 !.map = HashRemove(st1.map, position),
                 !.position_map = Put(st1.position_map, item.id, <<position>>)]

\* Lines 203-233: the indices and the grid once a position was allocated.
place(st, item, position) ==
    LET st1 == [st EXCEPT !.id_map = Put(st.id_map, item.id, item),
                          !.name_map = Put(st.name_map, item.name, item)]
    IN  IF item.quality.kind = "Oversized"
        THEN add_oversized(st1, item, position, position[3],
                           Add32(position[3], item.quality.continuous_zones))
        ELSE [st1 EXCEPT
                 !.map = HashInsert(HashRemove(st1.map, position), position, TRUE, Some(item)),
                 !.position_map = Put(st1.position_map, item.id, <<position>>)]

\* add_item that updates id_map and name_map before it asks the strategy.
add_item_eager(st, filters, item, checked) ==
    IF ~is_allowed_by_filters(filters, item)
    THEN [res |-> "BlockedByFilter", st |-> st]
    ELSE LET st1 == [st EXCEPT !.id_map = Put(st.id_map, item.id, item),
                               !.name_map = Put(st.name_map, item.name, item)]
             a == allocate(item, st.map, checked)
         IN  IF a.panic THEN [res |-> "Panic", st |-> st1]
             ELSE IF a.pos = None THEN [res |-> "FailedAllocation", st |-> st1]
             ELSE LET position == Unwrap(a.pos)
                      st2 == place(st1, item, position)
                  IN  IF position \notin DOMAIN st2.map
                      THEN [res |-> "FailedAdd", st |-> st2]
                      ELSE [res |-> "Ok", st |-> st2]

\* add_item: the outcome and the state it leaves.
add_item(st, filters, item, checked) ==
    IF ~is_allowed_by_filters(filters, item)
    THEN [res |-> "BlockedByFilter", st |-> st]
    ELSE LET a == allocate(item, st.map, checked)
         IN  IF a.panic THEN [res |-> "Panic", st |-> st]
             ELSE IF a.pos = None THEN [res |-> "FailedAllocation", st |-> st]
             ELSE LET position == Unwrap(a.pos)
                      st2 == place(st, item, position)
                  IN  IF position \notin DOMAIN st2.map
                      THEN [res |-> "FailedAdd", st |-> st2]
                      ELSE [res |-> "Ok", st |-> st2]

--------------------------------------------------------------------------
\* Placement::remove_item

\* release that clears the anchor only.
release_anchor_only(m, positions, i) ==
    IF Len(positions) = 0 THEN m
    ELSE HashInsert(HashRemove(m, positions[1]), positions[1], FALSE, None)

\* release that removes each key and never puts it back.
release_no_insert(m, positions, i) ==
    [k \in DOMAIN m \ {positions[j] : j \in 1 .. Len(positions)} |-> m[k]]

\* Lines 274-280: release every recorded coordinate.
RECURSIVE release(_, _, _)
release(m, positions, i) ==
    IF i > Len(positions) THEN m
    ELSE LET tmp == positions[i]
         IN  release(HashInsert(HashRemove(m, tmp), tmp, FALSE, None), positions, i + 1)

\* remove_item that leaves the position_map entry behind.
remove_item_keep_positions(st, id) ==
    IF id \notin DOMAIN st.id_map
    THEN [res |-> "FailedRemove", st |-> st]
    ELSE LET name_ref == st.id_map[id].name
             existing_positions ==
                 IF id \in DOMAIN st.position_map THEN st.position_map[id] ELSE << >>
         IN  [res |-> "Ok",
              st |-> State(release(st.map, existing_positions, 1),
                           Del(st.id_map, id),
                           Del(st.name_map, name_ref),
                           st.position_map)]

\* remove_item that takes an absent id for a finished removal.
remove_item_silent(st, id) ==
    IF id \notin DOMAIN st.id_map
    THEN [res |-> "Ok", st |-> st]
    ELSE LET name_ref == st.id_map[id].name
             existing_positions ==
                 IF id \in DOMAIN st.position_map THEN st.position_map[id] ELSE << >>
         IN  [res |-> "Ok",
              st |-> State(release(st.map, existing_positions, 1),
                           Del(st.id_map, id),
                           Del(st.name_map, name_ref),
                           Del(st.position_map, id))]

\* Placement::remove_item
remove_item(st, id) ==
    IF id \notin DOMAIN st.id_map
    THEN [res |-> "FailedRemove", st |-> st]
    ELSE LET name_ref == st.id_map[id].name
             existing_positions ==
                 IF id \in DOMAIN st.position_map THEN st.position_map[id] ELSE << >>
         IN  [res |-> "Ok",
              st |-> State(release(st.map, existing_positions, 1),
                           Del(st.id_map, id),
                           Del(st.name_map, name_ref),
                           Del(st.position_map, id))]

\* Placement::position_search
position_search(st, id) ==
    IF id \in DOMAIN st.position_map THEN Some(st.position_map[id]) ELSE None

--------------------------------------------------------------------------
\* Queries

\* Names are single ASCII letters in the model.
UpperCase == <<"A", "B", "C", "D", "E", "F", "G", "H">>
LowerCase == <<"a", "b", "c", "d", "e", "f", "g", "h">>

IndexOf(letters, c) == CHOOSE i \in 1 .. Len(letters) : letters[i] = c
IsUpper(c) == \E i \in 1 .. Len(UpperCase) : UpperCase[i] = c

\* The byte of the letter: what Ord::cmp on the strings compares.
Byte(c) == IF IsUpper(c) THEN 64 + IndexOf(UpperCase, c) ELSE 96 + IndexOf(LowerCase, c)

\* str::to_lowercase
to_lowercase(c) == IF IsUpper(c) THEN LowerCase[IndexOf(UpperCase, c)] ELSE c

\* The key without to_lowercase: the names as they are.
sort_key_raw(item) == item.name

\* The key of the comparator of alphabetical: a.name.to_lowercase().
sort_key(item) == to_lowercase(item.name)

\* Every order in which the elements of S can be visited.
RECURSIVE Orders(_)
Orders(S) ==
    IF S = {} THEN {<< >>}
    ELSE UNION {{<<x>> \o o : o \in Orders(S \ {x})} : x \in S}

\* sorted_by is a stable sort: x goes behind every element that does not
\* compare greater.
insert_sorted(acc, x) ==
    LET n == Cardinality({j \in 1 .. Len(acc) : Byte(sort_key(acc[j])) <= Byte(sort_key(x))})
    IN  SubSeq(acc, 1, n) \o <<x>> \o SubSeq(acc, n + 1, Len(acc))

RECURSIVE sorted_by(_, _, _)
sorted_by(list, i, acc) ==
    IF i > Len(list) THEN acc
    ELSE sorted_by(list, i + 1, insert_sorted(acc, list[i]))

\* Placement::alphabetical: one result for each order in which the HashMap may
\* hand out its values.
alphabetical(m) ==
    LET resident == {c \in DOMAIN m : m[c].item # None}
    IN  { sorted_by([i \in 1 .. Len(o) |-> Unwrap(m[o[i]].item)], 1, << >>) :
              o \in Orders(resident) }

\* Placement::check_expired_products.  The result is an Option<HashSet<Item>>.
is_expired(expiration_date, item_expiration_date) ==
    LET current_day == expiration_date[1]
        current_month == expiration_date[2]
        current_year == expiration_date[3]
        item_day == item_expiration_date[1]
        item_month == item_expiration_date[2]
        item_year == item_expiration_date[3]
    IN  \/ current_year > item_year
        \/ current_year = item_year /\ current_month > item_month
        \/ current_year = item_year /\ current_month = item_month /\ current_day >= item_day

check_expired_products(m, expiration_date) ==
    LET expired_items ==
            {it \in UNION {m[c].item : c \in DOMAIN m} :
                /\ it.quality.kind = "Fragile"
                /\ is_expired(expiration_date, it.quality.expiration_date)}
    IN  IF expired_items = {} THEN None ELSE Some(expired_items)

\* Placement::id_search, Placement::name_search
id_search(st, search_id) ==
    IF search_id \in DOMAIN st.id_map THEN Some(st.id_map[search_id]) ELSE None

name_search(st, search_name) ==
    IF search_name \in DOMAIN st.name_map THEN Some(st.name_map[search_name]) ELSE None

--------------------------------------------------------------------------
\* Actions

Call(op, res, item, id) == [op |-> op, res |-> res, item |-> item, id |-> id]

\* Whether the build checks arithmetic overflow matters only to an item whose
\* span can leave the u32 range.
Builds(item) ==
    IF item.quality.kind = "Oversized"
       /\ MAXPOSITION + item.quality.continuous_zones >= U32
    THEN BOOLEAN ELSE {FALSE}

Commit(r) ==
    /\ map' = r.st.map
    /\ id_map' = r.st.id_map
    /\ name_map' = r.st.name_map
    /\ position_map' = r.st.position_map

AddItem(item) ==
    \E checked \in Builds(item) :
        \E r \in {add_item(Cur, filter_list, item, checked)} :
            /\ Commit(r)
            /\ last' = Call("add_item", r.res, Some(item), item.id)
            /\ aborted' = (r.res = "Panic")
            /\ ops' = ops + 1
            /\ UNCHANGED filter_list

RemoveItem(id) ==
    \E r \in {remove_item(Cur, id)} :
        /\ Commit(r)
        /\ last' = Call("remove_item", r.res, None, id)
        /\ ops' = ops + 1
        /\ UNCHANGED <<filter_list, aborted>>

\* Placement::configure_filters
ConfigureFilters(list) ==
    /\ filter_list' = list
    /\ last' = Call("configure_filters", "Ok", None, 0)
    /\ ops' = ops + 1
    /\ UNCHANGED <<map, id_map, name_map, position_map, aborted>>

Init ==
    /\ map = new.map
    /\ id_map = new.id_map
    /\ name_map = new.name_map
    /\ position_map = new.position_map
    /\ filter_list = << >>
    /\ last = Call("new", "Ok", None, 0)
    /\ aborted = FALSE
    /\ ops = 0

\* The process is alive and the run has calls left.
Running(max) == ~aborted /\ ops < max

Add == Running(MaxOps) /\ \E item \in Items : AddItem(item)

Remove == Running(MaxOps) /\ \E id \in Ids : RemoveItem(id)

Configure == Running(MaxOps) /\ \E list \in FilterLists : ConfigureFilters(list)

Next == Add \/ Remove \/ Configure

Spec == Init /\ [][Next]_vars

\* SpecFill: a caller that keeps ids unique.  It adds only an id that is not
\* present (the least such one, ids being interchangeable) and removes any id.
FreshId == CHOOSE i \in FillIds \ DOMAIN id_map : \A j \in FillIds \ DOMAIN id_map : i <= j

FillAdd ==
    /\ Running(MaxFillOps)
    /\ FillIds \ DOMAIN id_map # {}
    /\ \E k \in FillQualities : AddItem(Item(FreshId, FillName(FreshId), 1, k))

FillRemove == Running(MaxFillOps) /\ \E id \in FillIds : RemoveItem(id)

NextFill == FillAdd \/ FillRemove

SpecFill == Init /\ [][NextFill]_vars

\* SpecSort: adds and removals of items whose names differ in case.
SortAdd == Running(MaxSortOps) /\ \E item \in SortItems : AddItem(item)

SortRemove == Running(MaxSortOps) /\ \E id \in Ids : RemoveItem(id)

NextSort == SortAdd \/ SortRemove

SpecSort == Init /\ [][NextSort]_vars

\* SpecFilter: the filter chain is set to one of FilterChains, and items on
\* both sides of the cutoffs are added and removed.
FilterConfigure == Running(MaxFilterOps) /\ \E list \in FilterChains : ConfigureFilters(list)

FilterAdd == Running(MaxFilterOps) /\ \E item \in FilterItems : AddItem(item)

FilterRemove == Running(MaxFilterOps) /\ RemoveItem(1)

NextFilter == FilterConfigure \/ FilterAdd \/ FilterRemove

SpecFilter == Init /\ [][NextFilter]_vars

\* SpecExpiry: a caller that keeps ids unique adds Fragile items of several
\* expiration dates and lane-wide Oversized items, and removes any id.
ExpiryAdd ==
    /\ Running(MaxExpiryOps)
    /\ FillIds \ DOMAIN id_map # {}
    /\ \E k \in ExpiryQualities : AddItem(Item(FreshId, FillName(FreshId), 1, k))

ExpiryRemove == Running(MaxExpiryOps) /\ \E id \in FillIds : RemoveItem(id)

NextExpiry == ExpiryAdd \/ ExpiryRemove

SpecExpiry == Init /\ [][NextExpiry]_vars

\* SpecWide: items whose span reaches the top of the u32 range.
WideAdd == Running(MaxWideOps) /\ \E item \in WideItems : AddItem(item)

WideRemove == Running(MaxWideOps) /\ \E id \in Ids : RemoveItem(id)

WideConfigure == Running(MaxWideOps) /\ \E list \in WideFilterLists : ConfigureFilters(list)

NextWide == WideAdd \/ WideRemove \/ WideConfigure

SpecWide == Init /\ [][NextWide]_vars

\* SpecName: a caller that keeps ids unique and lets items share a name.
NameAdd ==
    /\ Running(MaxNameOps)
    /\ FillIds \ DOMAIN id_map # {}
    /\ \E n \in Names, k \in FillQualities : AddItem(Item(FreshId, n, 1, k))

NameRemove == Running(MaxNameOps) /\ \E id \in FillIds : RemoveItem(id)

NextName == NameAdd \/ NameRemove

SpecName == Init /\ [][NextName]_vars

--------------------------------------------------------------------------
\* Vocabulary of the properties

\* The coordinates recorded for id.
Listed(id) == {position_map[id][i] : i \in 1 .. Len(position_map[id])}

LastAdd == last.op = "add_item"
LastRemove == last.op = "remove_item"
LastItem == Unwrap(last.item)

Grid == <<map, id_map, name_map, position_map>>

AddErrors == {"BlockedByFilter", "FailedAllocation", "FailedAdd"}

\* Some (row, shelf) of m has n consecutive unoccupied zones inside the cube.
HasFreeRun(m, n) ==
    \E r \in 0 .. MAXPOSITION - 1, s \in 0 .. MAXPOSITION - 1, z \in 0 .. MAXPOSITION - 1 :
        /\ z + n <= MAXPOSITION
        /\ \A k \in z .. z + n - 1 :
               <<r, s, k>> \in DOMAIN m /\ ~m[<<r, s, k>>].occupied

--------------------------------------------------------------------------
\* C1: no two distinct present ids have a coordinate in common in their
\* recorded position lists.
C1_NoSharedCoordinate ==
    \A i \in DOMAIN position_map, j \in DOMAIN position_map :
        i # j => Listed(i) \cap Listed(j) = {}

\* C2: an add_item of an admitted Oversized item of span N, made on a grid in
\* which no (row, shelf) has N consecutive unoccupied zones inside the cube,
\* returns FailedAllocation.
C2_NoRunFailsAllocation ==
    [][ ( /\ last'.op = "add_item"
          /\ Unwrap(last'.item).quality.kind = "Oversized"
          /\ is_allowed_by_filters(filter_list, Unwrap(last'.item))
          /\ ~HasFreeRun(map, Unwrap(last'.item).quality.continuous_zones) )
        => last'.res = "FailedAllocation" ]_vars

\* C3: after a successful add_item or remove_item, a coordinate is occupied
\* iff it is in the position list of some id of position_map.
C3_OccupiedIffListed ==
    ((LastAdd \/ LastRemove) /\ last.res = "Ok") =>
        \A c \in DOMAIN map :
            map[c].occupied <=> (\E id \in DOMAIN position_map : c \in Listed(id))

\* C4: at most one grid entry holds a resident item with a given id.
C4_UniqueResidentIds ==
    \A c \in DOMAIN map, d \in DOMAIN map :
        (c # d /\ map[c].item # None /\ map[d].item # None)
            => Unwrap(map[c].item).id # Unwrap(map[d].item).id

\* C5: for every id of position_map the entry at the first coordinate of its
\* list holds that item as resident, and every other coordinate of the list is
\* occupied with no resident.
C5_AnchorHoldsItem ==
    \A id \in DOMAIN position_map :
        LET l == position_map[id]
        IN  /\ Len(l) > 0
            /\ id \in DOMAIN id_map
            /\ l[1] \in DOMAIN map
            /\ map[l[1]].item = Some(id_map[id])
            /\ \A i \in 2 .. Len(l) :
                   l[i] \in DOMAIN map /\ map[l[i]].occupied /\ map[l[i]].item = None

\* C6: right after an add_item(item) that returns Ok, position_search(item.id)
\* is a non-empty list, the entry at its first element holds item, and every
\* coordinate of the list is marked occupied.
C6_AddOkRecorded ==
    (LastAdd /\ last.res = "Ok") =>
        LET found == position_search(Cur, last.id)
        IN  /\ found # None
            /\ Len(Unwrap(found)) > 0
            /\ Unwrap(found)[1] \in DOMAIN map
            /\ map[Unwrap(found)[1]].item = Some(LastItem)
            /\ \A i \in 1 .. Len(Unwrap(found)) :
                   Unwrap(found)[i] \in DOMAIN map /\ map[Unwrap(found)[i]].occupied

\* An Oversized item was just added over two or more cells.
C6_Witness ==
    /\ LastAdd /\ last.res = "Ok"
    /\ LastItem.quality.kind = "Oversized"
    /\ Len(position_map[last.id]) >= 2

\* C7: id_map and position_map have the same keys, and every position list is
\* non-empty.
C7_IndexKeysAgree ==
    /\ DOMAIN id_map = DOMAIN position_map
    /\ \A id \in DOMAIN position_map : Len(position_map[id]) > 0

\* A removal has succeeded and another item is still present.
C7_Witness ==
    /\ LastRemove /\ last.res = "Ok"
    /\ DOMAIN id_map # {}

\* C8: a successful add_item of an Oversized item of span N records exactly N
\* coordinates, anchor first, on one row and shelf, consecutive in zone, with
\* z + N <= MAXPOSITION; of a Normal or Fragile item, exactly one coordinate.
C8_AddRecordsSpan ==
    (LastAdd /\ last.res = "Ok") =>
        /\ last.id \in DOMAIN position_map
        /\ LET l == position_map[last.id]
               n == LastItem.quality.continuous_zones
           IN  IF LastItem.quality.kind = "Oversized"
               THEN /\ Len(l) = n
                    /\ n >= 1
                    /\ map[l[1]].item = Some(LastItem)
                    /\ \A i \in 1 .. n : l[i] = <<l[1][1], l[1][2], l[1][3] + (i - 1)>>
                    /\ l[1][3] + n <= MAXPOSITION
               ELSE Len(l) = 1

\* An Oversized item of span 2 or more was just added away from (0, 0, 0).
C8_Witness ==
    /\ LastAdd /\ last.res = "Ok"
    /\ LastItem.quality.kind = "Oversized"
    /\ LastItem.quality.continuous_zones >= 2
    /\ position_map[last.id][1] # <<0, 0, 0>>

\* C9: an add_item that returns BlockedByFilter, FailedAllocation or FailedAdd
\* leaves the grid, id_map, name_map and position_map as they were.
C9_FailedAddChangesNothing ==
    [][ (last'.op = "add_item" /\ last'.res \in AddErrors) => UNCHANGED Grid ]_vars

\* An add_item has failed to allocate while an item is present.
C9_Witness ==
    /\ LastAdd /\ last.res = "FailedAllocation"
    /\ DOMAIN id_map # {}

\* C10: remove_item(id) for an id that is not in id_map returns FailedRemove
\* and leaves the grid, id_map, name_map and position_map as they were.
C10_RemoveAbsentFails ==
    [][ (last'.op = "remove_item" /\ last'.id \notin DOMAIN id_map)
        => (last'.res = "FailedRemove" /\ UNCHANGED Grid) ]_vars

\* A removal of an absent id was refused while another item is present.
C10_Witness ==
    /\ LastRemove /\ last.res = "FailedRemove"
    /\ DOMAIN id_map # {}

\* C11: after a successful remove_item(id), every coordinate that was in id's
\* recorded list is unoccupied with no resident, and id is in neither id_map
\* nor position_map.
C11_RemoveReleases ==
    [][ (last'.op = "remove_item" /\ last'.res = "Ok") =>
            /\ last'.id \in DOMAIN position_map
            /\ \A c \in Listed(last'.id) :
                   c \in DOMAIN map' /\ map'[c] = Entry(FALSE, None)
            /\ last'.id \notin DOMAIN id_map'
            /\ last'.id \notin DOMAIN position_map' ]_vars

\* A removal has emptied (0, 0, 0) while another cell stays occupied.
C11_Witness ==
    /\ LastRemove /\ last.res = "Ok"
    /\ ~map[<<0, 0, 0>>].occupied
    /\ \E c \in DOMAIN map : map[c].occupied

\* C12: the sequence returned by alphabetical() is as long as the number of
\* ids in id_map.
C12_AlphabeticalLength ==
    \A out \in alphabetical(map) : Len(out) = Cardinality(DOMAIN id_map)

\* C16: the sequence returned by alphabetical() is non-decreasing under the
\* comparison of the lower-cased names.
C16_AlphabeticalSorted ==
    \A out \in alphabetical(map) :
        \A i \in 1 .. Len(out), j \in 1 .. Len(out) :
            i < j => Byte(to_lowercase(out[i].name)) <= Byte(to_lowercase(out[j].name))

\* Three items are resident, an upper-case name among them, and their names
\* are not all the same.
C16_Witness ==
    \E out \in alphabetical(map) :
        /\ Len(out) >= 3
        /\ \E i \in 1 .. Len(out) : IsUpper(out[i].name)
        /\ \E i \in 1 .. Len(out) : out[i].name = "a"

\* The chain holds the two filters, in either order.
IsPairChain(fl) ==
    /\ Len(fl) = 2
    /\ {fl[1].kind, fl[2].kind} = {"AvoidTooLarge", "AvoidTooFragile"}

CutoffOf(fl, kind) == (CHOOSE i \in 1 .. Len(fl) : fl[i].kind = kind)

\* What the two cutoffs reject, whatever the order of the chain.
Rejected(fl, item) ==
    \/ /\ item.quality.kind = "Oversized"
       /\ item.quality.continuous_zones > fl[CutoffOf(fl, "AvoidTooLarge")].cutoff
    \/ /\ item.quality.kind = "Fragile"
       /\ item.quality.row < fl[CutoffOf(fl, "AvoidTooFragile")].cutoff

\* C13: with the chain AvoidTooLarge{cutoff}, AvoidTooFragile{cutoff}, in
\* either order, add_item returns BlockedByFilter exactly when the item is
\* Oversized with span above the span cutoff or Fragile with max_row below
\* the flexibility cutoff; every other item goes on to allocation.
C13_BlockedExactly ==
    (LastAdd /\ IsPairChain(filter_list)) =>
        /\ last.res = "BlockedByFilter" <=> Rejected(filter_list, LastItem)
        /\ ~Rejected(filter_list, LastItem) => last.res \in {"Ok", "FailedAllocation"}

\* Span 4 was blocked by the cutoff 3 of an AvoidTooLarge that stands second.
C13_Witness ==
    /\ LastAdd /\ last.res = "BlockedByFilter"
    /\ IsPairChain(filter_list)
    /\ filter_list[2] = AvoidTooLarge(3)
    /\ LastItem.quality = Oversized(4)

GridEmpty(m) == \A c \in DOMAIN m : ~m[c].occupied

\* The items some cell of an empty grid can take.
Placeable(item) ==
    \/ item.quality.kind = "Normal"
    \/ item.quality.kind = "Fragile" /\ item.quality.row >= 1
    \/ /\ item.quality.kind = "Oversized"
       /\ item.quality.continuous_zones >= 1
       /\ item.quality.continuous_zones <= MAXPOSITION

\* C14, as stated: on an empty grid, add_item of any item the filter chain
\* admits succeeds and anchors the item at (0, 0, 0).
C14_EmptyGridAlwaysPlaces ==
    [][ ( /\ last'.op = "add_item"
          /\ GridEmpty(map)
          /\ is_allowed_by_filters(filter_list, Unwrap(last'.item)) )
        => ( /\ last'.res = "Ok"
             /\ position_map'[last'.id][1] = <<0, 0, 0>> ) ]_vars

\* C14, amended: on an empty grid, add_item of an admitted item returns Ok
\* exactly when the item is Normal, Fragile with max_row >= 1, or Oversized
\* with 1 <= span <= MAXPOSITION, and it then anchors the item at (0, 0, 0);
\* any other admitted item is not placed and the grid stays empty.
C14_EmptyGridPlacesPlaceable ==
    [][ ( /\ last'.op = "add_item"
          /\ GridEmpty(map)
          /\ is_allowed_by_filters(filter_list, Unwrap(last'.item)) )
        => ( /\ last'.res = "Ok" <=> Placeable(Unwrap(last'.item))
             /\ last'.res = "Ok" =>
                    /\ position_map'[last'.id][1] = <<0, 0, 0>>
                    /\ map'[<<0, 0, 0>>] = Entry(TRUE, last'.item)
             /\ last'.res # "Ok" => GridEmpty(map') ) ]_vars

\* An Oversized item as wide as the cube was just added to an empty grid: it
\* fills the lane of (0, 0, 0) and nothing else is occupied.
C14_Witness ==
    /\ LastAdd /\ last.res = "Ok"
    /\ LastItem.quality = Oversized(MAXPOSITION)
    /\ position_map[last.id][1] = <<0, 0, 0>>
    /\ \A c \in DOMAIN map : map[c].occupied <=> (c[1] = 0 /\ c[2] = 0)

\* a is on or before b in calendar order: year, then month, then day.
OnOrBefore(a, b) ==
    \/ a[3] < b[3]
    \/ a[3] = b[3] /\ a[2] < b[2]
    \/ a[3] = b[3] /\ a[2] = b[2] /\ a[1] <= b[1]

\* The Fragile items that are present and expire on or before d.
PresentExpired(d) ==
    {it \in {id_map[i] : i \in DOMAIN id_map} :
        /\ it.quality.kind = "Fragile"
        /\ OnOrBefore(it.quality.expiration_date, d)}

\* C15: check_expired_products(d) returns exactly the present Fragile items
\* whose expiration date is on or before d, and None when there is none.
C15_ExpiredExactly ==
    \A d \in QueryDates :
        check_expired_products(map, d) =
            IF PresentExpired(d) = {} THEN None ELSE Some(PresentExpired(d))

\* The items allocate is asked about in C17.
ProbeItems ==
    {Item(1, "a", 1, k) :
        k \in {Normal, Oversized(1), Oversized(MAXPOSITION)}
              \cup {Fragile(d, 1) : d \in Dates}}

\* Valid for the quality of the item, every cell of the span being looked at.
ValidInFull(c, item, m) ==
    IF item.quality.kind = "Fragile" THEN c[1] < item.quality.row
    ELSE IF item.quality.kind = "Oversized"
    THEN /\ c[3] + item.quality.continuous_zones <= MAXPOSITION
         /\ \A k \in c[3] .. c[3] + item.quality.continuous_zones - 1 :
                ~m[<<c[1], c[2], k>>].occupied
    ELSE TRUE

ScanIndex(c) == c[1] * MAXPOSITION * MAXPOSITION + c[2] * MAXPOSITION + c[3]

\* The least unoccupied coordinate, in (row, shelf, zone) order, that is valid
\* in full for the item; None when there is none.
LeastValid(item, m) ==
    LET V == {c \in DOMAIN m : ~m[c].occupied /\ ValidInFull(c, item, m)}
    IN  IF V = {} THEN None
        ELSE Some(CHOOSE c \in V : \A d \in V : ScanIndex(c) <= ScanIndex(d))

\* C17: allocate returns the least unoccupied coordinate in (row, shelf, zone)
\* order that is valid for the item, an Oversized span being checked cell by
\* cell, and None exactly when there is no such coordinate.
C17_AllocateLeastValid ==
    \A item \in ProbeItems : allocate(item, map, FALSE).pos = LeastValid(item, map)

\* The present Fragile item of this id occupies exactly one coordinate, of a
\* row below its max_row.
FragileInOneCell(m, ids, positions, id) ==
    /\ id \in DOMAIN positions
    /\ Len(positions[id]) = 1
    /\ positions[id][1][1] < ids[id].quality.row
    /\ m[positions[id][1]].occupied

\* Some unoccupied coordinate of m has a row below max_row.
HasFreeRowBelow(m, row) == \E c \in DOMAIN m : ~m[c].occupied /\ c[1] < row

\* C18: every present Fragile item occupies exactly one coordinate whose row
\* is below its max_row, after any sequence of operations; and add_item of an
\* admitted Fragile item returns FailedAllocation when no unoccupied
\* coordinate has a row below max_row.
C18_FragileRow ==
    [][ /\ \A id \in DOMAIN id_map' :
               id_map'[id].quality.kind = "Fragile" =>
                   FragileInOneCell(map', id_map', position_map', id)
        /\ ( /\ last'.op = "add_item"
             /\ Unwrap(last'.item).quality.kind = "Fragile"
             /\ is_allowed_by_filters(filter_list, Unwrap(last'.item))
             /\ ~HasFreeRowBelow(map, Unwrap(last'.item).quality.row) )
           => last'.res = "FailedAllocation" ]_vars

\* C19: the key set of the grid is exactly the cube of coordinates in every
\* reachable state; add_item and remove_item put back every key they take out
\* and add none outside the cube.
C19_KeySetIsCube == DOMAIN map = Coords

\* Every item was removed again: each key that was taken out is back.
C19_Witness ==
    /\ LastRemove /\ last.res = "Ok"
    /\ DOMAIN id_map = {}
    /\ GridEmpty(map)
    /\ DOMAIN map = Coords

\* C20: add_item never returns FailedAdd; once the filters and the strategy
\* let an item through, the anchor entry is there and holds the item.
C20_NoFailedAdd ==
    /\ last.res # "FailedAdd"
    /\ (LastAdd /\ last.res = "Ok") =>
           /\ position_map[last.id][1] \in DOMAIN map
           /\ map[position_map[last.id][1]].item = last.item

\* A Fragile item passed a non-empty filter chain and the strategy.
C20_Witness ==
    /\ LastAdd /\ last.res = "Ok"
    /\ filter_list # << >>
    /\ LastItem.quality.kind = "Fragile"

\* C21: add_item returns a result value, Ok or an error variant, for every
\* item and never ends in an unrecoverable fault, an Oversized item whose
\* zone + span leaves the u32 range included.
C21_AddReturnsResult ==
    /\ ~aborted
    /\ LastAdd => last.res \in {"Ok"} \cup AddErrors

\* The items that are present.
Present == {id_map[i] : i \in DOMAIN id_map}

\* C22: name_search(n) returns an item exactly when some present item has the
\* name n, and the item it returns is a present one; removing one of two items
\* that share a name leaves the other findable, and no entry outlives its item.
C22_NameIndexAgrees ==
    \A n \in Names :
        /\ name_search(Cur, n) # None <=> \E it \in Present : it.name = n
        /\ name_search(Cur, n) \subseteq Present

\* The recorded coordinates of id in the position map pm.
ListedIn(pm, id) == {pm[id][i] : i \in 1 .. Len(pm[id])}

\* C23: a successful remove_item(id) changes only the grid entries at the
\* coordinates of id's own list; every other present id keeps its item at its
\* anchor, keeps all its listed coordinates occupied and keeps its id_map and
\* position_map entries.
C23_RemoveTouchesOwnCells ==
    [][ (last'.op = "remove_item" /\ last'.res = "Ok") =>
            /\ \A c \in DOMAIN map \ ListedIn(position_map, last'.id) :
                   c \in DOMAIN map' /\ map'[c] = map[c]
            /\ \A j \in DOMAIN id_map \ {last'.id} :
                   /\ j \in DOMAIN id_map' /\ id_map'[j] = id_map[j]
                   /\ j \in DOMAIN position_map' /\ position_map'[j] = position_map[j]
                   /\ map[position_map[j][1]].item = Some(id_map[j])
                          => map'[position_map[j][1]].item = Some(id_map[j])
                   /\ \A c \in ListedIn(position_map, j) :
                          map[c].occupied => map'[c].occupied ]_vars

\* The items whose id and name are not present.
FreshItems ==
    {Item(i, FillName(i), 1, k) : i \in FillIds \ DOMAIN id_map, k \in FillQualities}

NameIsFree(item) ==
    /\ item.name \notin DOMAIN name_map
    /\ \A it \in Present : it.name # item.name

\* C24: when add_item succeeds for an item whose id and name are not present,
\* remove_item of that id right afterwards restores the grid, id_map, name_map
\* and position_map to what they were before the add.
C24_AddRemoveRoundTrip ==
    \A item \in FreshItems :
        NameIsFree(item) =>
            \A added \in {add_item(Cur, filter_list, item, FALSE)} :
                added.res = "Ok" => remove_item(added.st, item.id).st = Cur

====
